---- MODULE Spec2Model ----
(***************************************************************************)
(* google-proxy (main.go): a single-upstream reverse proxy with a per-IP   *)
(* token-bucket limiter, a middleware chain, and day-rotating log sinks    *)
(* fed synchronously (error stream) and through a bounded queue (access    *)
(* stream).                                                                *)
(*                                                                         *)
(* Time is a discrete clock of ticks.  The limiter's window is a number of *)
(* ticks; the calendar day of an instant is the instant divided by         *)
(* TicksPerDay.  Token counts are float64 in the code; the model keeps     *)
(* them exactly, in units of 1/window of a token, so that the refill       *)
(* elapsed * rate = elapsed * limit / window is an integer number of       *)
(* units: a bucket's field tokens holds (tokens of the code) * window.     *)
(***************************************************************************)
EXTENDS Integers, Sequences, FiniteSets, TLC

\* ---------------------------------------------------------------- bounds
MaxReq == 2            \* largest capacity a limiter is built with
MaxWindow == 2         \* largest window (ticks) a limiter is built with
MaxTime == 2           \* the clock stops advancing here
MaxRequests == 3       \* requests sent to the server in one run
MaxLogRequests == 2    \* the same, in the runs of the logging path
TicksPerDay == 2       \* ticks in one calendar day
AccessLogCap == 2      \* capacity of accessLogCh (10000 in the code)
MaxHeaderLen == 3      \* longest X-Forwarded-For value, in characters
MaxCalls == 4          \* Allow calls made directly on the limiter
MaxCopies == 6         \* response bodies copied through the buffer pool

\* ------------------------------------------------------------- constants
DefaultWindow == 10    \* newIPRateLimiter: window <= 0 becomes 10 s
StatusOK == 200
StatusTooManyRequests == 429
StatusBadGateway == 502
BufferSize == 32768    \* byteBufferPool: make([]byte, 32*1024)

Procs == {1, 2}        \* the request-handling goroutines
IPs == {1, 2}          \* the client-IP keys
Consumer == 0          \* the goroutine draining accessLogCh

VARIABLES
    clock,        \* time.Now(), in ticks
    rl,           \* defaultIPLimiter: [limit, window, buckets]
    pc,           \* position of each request-handling goroutine
    req,          \* the request each goroutine is handling
    now,          \* the instant Allow sampled before taking rl.mu
    resp,         \* the response written for the request
    accessLogCh,  \* the buffered channel of access-log lines
    budget,       \* requests the clients still send
    seqno,        \* per stream: log lines produced so far
    call,         \* per goroutine: what rateLimitMiddleware did with the request
    hist,         \* per IP: observations of the Allow calls made for it
    sink,         \* per stream: the dailyFileWriter's file and currentDate
    mu,           \* per stream: the holder of the dailyFileWriter's mutex
    handles,      \* per stream: the files an open OS handle refers to
    files,        \* per stream and day: the lines appended to that day's file
    stdout,       \* the lines written to os.Stdout
    wr,           \* per goroutine: the Write call in progress
    inbound,      \* a request as received, handed to proxyRP.ServeHTTP
    outbound,     \* the request the transport sends to the upstream for it
    peer,         \* a request as received, its headers and RemoteAddr as text
    keys,         \* the client keys taken from peer: by the limiter, by the log
    prev,         \* the request before peer on the connection, and its key
    pool,         \* the slices byteBufferPool's sync.Pool holds
    held,         \* per goroutine: the slice its copy got from the pool
    audit         \* what is recorded of the Allow calls made directly

vars == <<clock, rl, pc, req, now, resp, accessLogCh, budget, seqno, call, hist,
          sink, mu, handles, files, stdout, wr, inbound, outbound,
          peer, keys, prev, pool, held, audit>>

serverVars == <<clock, rl, pc, req, now, resp, accessLogCh, budget, seqno, call,
                hist, sink, mu, handles, files, stdout, wr>>
fwdVars == <<inbound, outbound>>
keyVars == <<peer, keys, prev>>
poolVars == <<pool, held>>

limiterVars == <<rl, hist>>
logVars == <<sink, mu, handles, files, stdout, wr>>

\* -------------------------------------------------- IP token-bucket limiter
NoBuckets == [ip \in {} |-> 0]

\* newIPRateLimiter(maxReq, window): rate = limit / window is kept as the pair.
newIPRateLimiter(maxReq, window) ==
    [limit   |-> maxReq,
     window  |-> IF window <= 0 THEN DefaultWindow ELSE window,
     buckets |-> NoBuckets]

\* One token, in the units of the field tokens.
OneToken(r) == r.window

\* Allow, first-seen IP: the bucket starts at limit - 1 and last = now.
NewBucket(r, t) == [tokens |-> (r.limit - 1) * r.window, last |-> t]

\* Refill without the clamp at limit.
RefillNoClamp(r, b, t) ==
    LET elapsed == t - b.last
    IN  IF elapsed > 0
        THEN [tokens |-> b.tokens + elapsed * r.limit, last |-> t]
        ELSE b

\* Refill without the test elapsed > 0: any instant is taken as the new last.
RefillUnguarded(r, b, t) ==
    LET elapsed == t - b.last
        filled  == b.tokens + elapsed * r.limit
    IN  [tokens |-> IF filled > r.limit * r.window
                    THEN r.limit * r.window ELSE filled,
         last   |-> t]

\* Allow, refill: elapsed > 0 adds elapsed * rate, clamps at limit, moves last.
Refill(r, b, t) ==
    LET elapsed == t - b.last
        filled  == b.tokens + elapsed * r.limit
    IN  IF elapsed > 0
        THEN [tokens |-> IF filled > r.limit * r.window
                         THEN r.limit * r.window ELSE filled,
              last   |-> t]
        ELSE b

\* Allow, debit: tokens < 1 rejects without a debit, else one token is taken.
Debit(r, b) ==
    IF b.tokens < OneToken(r)
    THEN [b |-> b, ok |-> FALSE]
    ELSE [b |-> [b EXCEPT !.tokens = @ - OneToken(r)], ok |-> TRUE]

\* Allow with one quota for all IPs: the debit is taken from every bucket.
AllowShared(r, ip, t) ==
    IF ip \notin DOMAIN r.buckets
    THEN [rl |-> [r EXCEPT !.buckets = (ip :> NewBucket(r, t)) @@ @],
          ok |-> TRUE]
    ELSE LET d == Debit(r, Refill(r, r.buckets[ip], t))
         IN  [rl |-> [r EXCEPT !.buckets =
                         [k \in DOMAIN @ |->
                            IF k = ip THEN d.b ELSE Debit(r, @[k]).b]],
              ok |-> d.ok]

\* Allow(ip) with the sampled instant t, the part done under rl.mu:
\* the limiter afterwards and the boolean returned.
Allow(r, ip, t) ==
    IF ip \notin DOMAIN r.buckets
    THEN [rl |-> [r EXCEPT !.buckets = (ip :> NewBucket(r, t)) @@ @],
          ok |-> TRUE]
    ELSE LET d == Debit(r, Refill(r, r.buckets[ip], t))
         IN  [rl |-> [r EXCEPT !.buckets[ip] = d.b], ok |-> d.ok]

\* ------------------------------------------------- day-rotating log sink
Streams == {"access", "error"}     \* accessLogPrefix, errorLogPrefix
Writers == Procs \cup {Consumer}
NoFile == -1                       \* w.file == nil
NoDate == -1                       \* w.currentDate == ""
NoHolder == -1
NoWrite == [stream |-> "none"]

\* time.Now().Format("2006-01-02")
DateOf(t) == t \div TicksPerDay
Dates == 0..DateOf(MaxTime)

\* newDailyFileWriter(dir, prefix)
newDailyFileWriter == [file |-> NoFile, currentDate |-> NoDate]

\* Write, line 57: does this Write rotate first?
NeedsRotate(w, today) == w.file = NoFile \/ w.currentDate # today

\* The sequence q without its first element equal to x.
RECURSIVE RemoveOne(_, _)
RemoveOne(q, x) ==
    IF q = <<>> THEN <<>>
    ELSE IF Head(q) = x THEN Tail(q)
    ELSE <<Head(q)>> \o RemoveOne(Tail(q), x)

\* Write, lines 53-57: take w.mu, read today's date, decide on a rotation.
WriteLock(g, s) ==
    /\ wr[g].stream = s /\ wr[g].at = "lock"
    /\ mu[s] = NoHolder
    /\ mu' = [mu EXCEPT ![s] = g]
    /\ LET today == DateOf(clock)
       IN  wr' = [wr EXCEPT ![g].today = today,
                            ![g].at = IF NeedsRotate(sink[s], today)
                                      THEN "open" ELSE "write"]
    /\ UNCHANGED <<sink, handles, files, stdout>>

\* rotate, lines 68-78: MkdirAll and OpenFile succeed, the new handle f is open.
RotateOpen(g, s) ==
    /\ wr[g].stream = s /\ wr[g].at = "open"
    /\ handles' = [handles EXCEPT ![s] = Append(@, wr[g].today)]
    /\ wr' = [wr EXCEPT ![g].at = "close"]
    /\ UNCHANGED <<sink, mu, files, stdout>>

\* rotate without the Close of the handle held so far.
RotateCloseLeak(g, s) ==
    /\ wr[g].stream = s /\ wr[g].at = "close"
    /\ wr' = [wr EXCEPT ![g].at = "assign"]
    /\ UNCHANGED <<sink, mu, handles, files, stdout>>

\* rotate, lines 80-82: the handle held so far, if any, is closed.
RotateClose(g, s) ==
    /\ wr[g].stream = s /\ wr[g].at = "close"
    /\ handles' = [handles EXCEPT ![s] =
                      IF sink[s].file # NoFile
                      THEN RemoveOne(@, sink[s].file) ELSE @]
    /\ wr' = [wr EXCEPT ![g].at = "assign"]
    /\ UNCHANGED <<sink, mu, files, stdout>>

\* rotate that records the new date but keeps writing through the old handle.
RotateAssignStale(g, s) ==
    /\ wr[g].stream = s /\ wr[g].at = "assign"
    /\ sink' = [sink EXCEPT ![s] =
                   [file |-> IF @.file = NoFile THEN wr[g].today ELSE @.file,
                    currentDate |-> wr[g].today]]
    /\ wr' = [wr EXCEPT ![g].at = "write"]
    /\ UNCHANGED <<mu, handles, files, stdout>>

\* rotate, lines 84-86: w.file = f, w.currentDate = date.
RotateAssign(g, s) ==
    /\ wr[g].stream = s /\ wr[g].at = "assign"
    /\ sink' = [sink EXCEPT ![s] = [file |-> wr[g].today,
                                     currentDate |-> wr[g].today]]
    /\ wr' = [wr EXCEPT ![g].at = "write"]
    /\ UNCHANGED <<mu, handles, files, stdout>>

\* Write with the error of rotate ignored: it goes on to w.file.Write.
RotateFailIgnored(g, s) ==
    /\ wr[g].stream = s /\ wr[g].at = "open"
    /\ wr' = [wr EXCEPT ![g].at = "write"]
    /\ UNCHANGED <<sink, mu, handles, files, stdout>>

\* rotate fails (lines 68-70 or 75-78) and Write, lines 58-61, falls back to
\* os.Stdout; the deferred Unlock releases w.mu.
RotateFail(g, s) ==
    /\ wr[g].stream = s /\ wr[g].at = "open"
    /\ stdout' = Append(stdout, [stream |-> s, entry |-> wr[g].entry])
    /\ mu' = [mu EXCEPT ![s] = NoHolder]
    /\ wr' = [wr EXCEPT ![g].at = "done"]
    /\ UNCHANGED <<sink, handles, files>>

\* Write without the deferred Unlock: the lock stays with the writer.
FileWriteNoUnlock(g, s) ==
    /\ wr[g].stream = s /\ wr[g].at = "write"
    /\ files' = [files EXCEPT ![s][sink[s].file] = Append(@, wr[g].entry)]
    /\ wr' = [wr EXCEPT ![g].at = "done"]
    /\ UNCHANGED <<sink, mu, handles, stdout>>

\* Write, line 64: w.file.Write(p) appends to the file the handle refers to;
\* the deferred Unlock releases w.mu.
FileWrite(g, s) ==
    /\ wr[g].stream = s /\ wr[g].at = "write"
    /\ files' = [files EXCEPT ![s][sink[s].file] = Append(@, wr[g].entry)]
    /\ mu' = [mu EXCEPT ![s] = NoHolder]
    /\ wr' = [wr EXCEPT ![g].at = "done"]
    /\ UNCHANGED <<sink, handles, stdout>>

\* One step of dailyFileWriter.Write by goroutine g on stream s.
WriteStep(g, s) ==
    \/ WriteLock(g, s)
    \/ RotateOpen(g, s)
    \/ RotateClose(g, s)
    \/ RotateAssign(g, s)
    \/ RotateFail(g, s)
    \/ FileWrite(g, s)

\* The call of Write that a logger makes for entry e on stream s.
BeginWrite(s, e) == [stream |-> s, at |-> "lock", today |-> NoDate, entry |-> e]

\* ------------------------------------------------------- middleware chain
Paths == {"/healthz", "/"}
UpstreamStatuses == {StatusOK, StatusTooManyRequests}
NoResp == [status |-> 0, ctype |-> "", body |-> "", time |-> -1, by |-> "none"]
NoCall == [allowed |-> FALSE, next |-> FALSE, waited |-> FALSE]
NoReq == [ip |-> 0]
NoHist == [first |-> -1, n |-> 0, ok |-> TRUE, done |-> -1, late |-> FALSE]

\* rateLimitMiddleware, lines 398-400: the response of a rejected request.
TooManyRequests ==
    [status |-> StatusTooManyRequests,
     ctype  |-> "text/plain; charset=utf-8",
     body   |-> "Too Many Requests\n",
     time   |-> -1,
     by     |-> "rateLimitMiddleware"]

\* main, lines 417-421: the response of /healthz at instant t.
HealthzResponse(t) ==
    [status |-> StatusOK,
     ctype  |-> "text/plain; charset=utf-8",
     body   |-> "ok <RFC3339 time>",
     time   |-> t,
     by     |-> "healthz"]

\* newReverseProxy, lines 263-266: http.Error(rw, "Upstream error", 502).
UpstreamError ==
    [status |-> StatusBadGateway,
     ctype  |-> "text/plain; charset=utf-8",
     body   |-> "Upstream error\n",
     time   |-> -1,
     by     |-> "ErrorHandler"]

\* The upstream's own response, streamed through.
UpstreamResponse(st) ==
    [status |-> st, ctype |-> "upstream", body |-> "upstream", time |-> -1,
     by |-> "upstream"]

\* The observation of one Allow(ip) call that sampled the instant t0 and ran
\* under rl.mu at instant t: first is the instant of the first call for the
\* IP, n counts the calls made in the window that starts there, ok is the
\* answer to the latest of them, done is the instant of the latest call, late
\* tells whether some call ran under the lock later than the instant it
\* sampled.
Observe(h, t0, t, ok, window) ==
    IF h.first = -1
    THEN [first |-> t, n |-> 1, ok |-> ok, done |-> t, late |-> t0 < t]
    ELSE IF t < h.first + window
    THEN [h EXCEPT !.n = @ + 1, !.ok = ok, !.done = t, !.late = @ \/ t0 < t]
    ELSE [h EXCEPT !.done = t]

\* A request reaches loggingMiddleware -> rateLimitMiddleware: clientIP(r) is
\* taken (line 396) and Allow samples time.Now() (line 356) before rl.mu.
Arrive(p) ==
    /\ pc[p] = "idle"
    /\ budget > 0
    /\ \E ip \in IPs, path \in Paths :
          req' = [req EXCEPT ![p] = [ip |-> ip, path |-> path]]
    /\ now' = [now EXCEPT ![p] = clock]
    /\ budget' = budget - 1
    /\ pc' = [pc EXCEPT ![p] = "allow"]
    /\ UNCHANGED <<clock, rl, resp, accessLogCh, seqno, call, hist, logVars>>

\* rateLimitMiddleware without the return after the 429: next runs anyway.
RateLimitNoReturn(ok, path, t) ==
    IF path = "/healthz"
    THEN [resp |-> IF ok THEN HealthzResponse(t) ELSE TooManyRequests,
          next |-> TRUE, pc |-> "log"]
    ELSE [resp |-> IF ok THEN NoResp ELSE TooManyRequests,
          next |-> TRUE, pc |-> "proxy"]

\* rateLimitMiddleware, lines 397-404, after Allow returned ok for a request
\* of the given path at instant t: 429 and return when Allow is false, else
\* next.ServeHTTP, where mux (lines 414-426) serves /healthz itself and hands
\* everything else to proxyRP.ServeHTTP.
RateLimitOutcome(ok, path, t) ==
    IF ~ok
    THEN [resp |-> TooManyRequests, next |-> FALSE, pc |-> "log"]
    ELSE IF path = "/healthz"
    THEN [resp |-> HealthzResponse(t), next |-> TRUE, pc |-> "log"]
    ELSE [resp |-> NoResp, next |-> TRUE, pc |-> "proxy"]

\* Has no Allow call for the IP been made for a whole window before the
\* instant t at which this call was started?
Waited(h, t, window) == h.done >= 0 /\ t - h.done >= window

\* rateLimitMiddleware, lines 396-404, with Allow's critical section
\* (lines 358-388).
RateLimit(p) ==
    /\ pc[p] = "allow"
    /\ LET a == Allow(rl, req[p].ip, now[p])
           o == RateLimitOutcome(a.ok, req[p].path, clock)
       IN  /\ rl' = a.rl
           /\ hist' = [hist EXCEPT ![req[p].ip] = Observe(@, now[p], clock, a.ok, rl.window)]
           /\ call' = [call EXCEPT ![p] =
                         [allowed |-> a.ok, next |-> o.next,
                          waited |-> Waited(hist[req[p].ip], now[p], rl.window)]]
           /\ resp' = [resp EXCEPT ![p] = o.resp]
           /\ pc' = [pc EXCEPT ![p] = o.pc]
    /\ now' = [now EXCEPT ![p] = 0]
    /\ UNCHANGED <<clock, req, accessLogCh, budget, seqno, logVars>>

\* proxyRP.ServeHTTP: the round trip succeeds and the upstream's response is
\* streamed through.
ProxyOK(p) ==
    /\ pc[p] = "proxy"
    /\ \E st \in UpstreamStatuses :
          resp' = [resp EXCEPT ![p] = UpstreamResponse(st)]
    /\ pc' = [pc EXCEPT ![p] = "log"]
    /\ UNCHANGED <<clock, rl, req, now, accessLogCh, budget, seqno, call, hist, logVars>>

\* proxyRP.ServeHTTP: the round trip succeeded and the status line is out, but
\* copying the body fails (the upstream or the client went away).
\* httputil.ReverseProxy then panics with http.ErrAbortHandler; the panic
\* unwinds rateLimitMiddleware and loggingMiddleware, neither of which defers
\* anything, and the server drops the connection: lines 311-322 do not run.
ProxyAbort(p) ==
    /\ pc[p] = "proxy"
    /\ pc' = [pc EXCEPT ![p] = "idle"]
    /\ req' = [req EXCEPT ![p] = NoReq]
    /\ resp' = [resp EXCEPT ![p] = NoResp]
    /\ call' = [call EXCEPT ![p] = NoCall]
    /\ UNCHANGED <<clock, rl, now, accessLogCh, budget, seqno, hist, logVars>>

\* proxyRP.ServeHTTP: the round trip fails and the ErrorHandler, line 264,
\* logs the failure on the error stream.
ProxyFail(p) ==
    /\ pc[p] = "proxy"
    /\ wr' = [wr EXCEPT ![p] =
                 BeginWrite("error", [seq |-> seqno["error"] + 1,
                                      prod |-> DateOf(clock),
                                      stamp |-> DateOf(clock)])]
    /\ seqno' = [seqno EXCEPT !["error"] = @ + 1]
    /\ pc' = [pc EXCEPT ![p] = "errlog"]
    /\ UNCHANGED <<clock, rl, req, now, resp, accessLogCh, budget, call, hist,
                   sink, mu, handles, files, stdout>>

\* An ErrorHandler that answers with the text of the error.
ErrorReplyDetail(p) ==
    /\ pc[p] = "errlog"
    /\ wr[p].at = "done"
    /\ wr' = [wr EXCEPT ![p] = NoWrite]
    /\ resp' = [resp EXCEPT ![p] = [UpstreamError EXCEPT !.body = "<text of err>"]]
    /\ pc' = [pc EXCEPT ![p] = "log"]
    /\ UNCHANGED <<clock, rl, req, now, accessLogCh, budget, seqno, call, hist,
                   sink, mu, handles, files, stdout>>

\* ErrorHandler, line 265: after log.Printf returned, the 502 is written.
ErrorReply(p) ==
    /\ pc[p] = "errlog"
    /\ wr[p].at = "done"
    /\ wr' = [wr EXCEPT ![p] = NoWrite]
    /\ resp' = [resp EXCEPT ![p] = UpstreamError]
    /\ pc' = [pc EXCEPT ![p] = "log"]
    /\ UNCHANGED <<clock, rl, req, now, accessLogCh, budget, seqno, call, hist,
                   sink, mu, handles, files, stdout>>

\* A send that always appends: a queue without the bound.
SendUnbounded(ch, msg) == Append(ch, msg)

\* loggingMiddleware, lines 315-321: the non-blocking send on accessLogCh.
TrySend(ch, msg) == IF Len(ch) < AccessLogCap THEN Append(ch, msg) ELSE ch

\* loggingMiddleware, lines 311-322, after next.ServeHTTP returned.
Enqueue(p) ==
    /\ pc[p] = "log"
    /\ accessLogCh' = TrySend(accessLogCh,
                              [seq |-> seqno["access"] + 1, ip |-> req[p].ip,
                               prod |-> DateOf(clock)])
    /\ seqno' = [seqno EXCEPT !["access"] = @ + 1]
    /\ pc' = [pc EXCEPT ![p] = "idle"]
    /\ req' = [req EXCEPT ![p] = NoReq]
    /\ resp' = [resp EXCEPT ![p] = NoResp]
    /\ call' = [call EXCEPT ![p] = NoCall]
    /\ UNCHANGED <<clock, rl, now, budget, hist, logVars>>

\* A consumer that takes the line enqueued last instead of the oldest one.
ReceiveLast ==
    /\ pc[Consumer] = "recv"
    /\ accessLogCh # <<>>
    /\ accessLogCh' = SubSeq(accessLogCh, 1, Len(accessLogCh) - 1)
    /\ wr' = [wr EXCEPT ![Consumer] =
                 BeginWrite("access", [seq |-> accessLogCh[Len(accessLogCh)].seq,
                                       ip |-> accessLogCh[Len(accessLogCh)].ip,
                                       prod |-> accessLogCh[Len(accessLogCh)].prod,
                                       stamp |-> DateOf(clock)])]
    /\ pc' = [pc EXCEPT ![Consumer] = "println"]
    /\ UNCHANGED <<clock, rl, req, now, resp, budget, seqno, call, hist,
                   sink, mu, handles, files, stdout>>

\* setupLogging, lines 104-105: the consumer receives the next line and
\* accessLogger.Println stamps it.
Receive ==
    /\ pc[Consumer] = "recv"
    /\ accessLogCh # <<>>
    /\ accessLogCh' = Tail(accessLogCh)
    /\ wr' = [wr EXCEPT ![Consumer] =
                 BeginWrite("access", [seq |-> Head(accessLogCh).seq,
                                       ip |-> Head(accessLogCh).ip,
                                       prod |-> Head(accessLogCh).prod,
                                       stamp |-> DateOf(clock)])]
    /\ pc' = [pc EXCEPT ![Consumer] = "println"]
    /\ UNCHANGED <<clock, rl, req, now, resp, budget, seqno, call, hist,
                   sink, mu, handles, files, stdout>>

\* setupLogging, line 104: Println returned, the loop receives again.
Written ==
    /\ pc[Consumer] = "println"
    /\ wr[Consumer].at = "done"
    /\ wr' = [wr EXCEPT ![Consumer] = NoWrite]
    /\ pc' = [pc EXCEPT ![Consumer] = "recv"]
    /\ UNCHANGED <<clock, rl, req, now, resp, accessLogCh, budget, seqno, call, hist,
                   sink, mu, handles, files, stdout>>

\* A step of a Write in progress; nothing but the sink changes.
Write(g, s) ==
    /\ WriteStep(g, s)
    /\ UNCHANGED <<clock, rl, pc, req, now, resp, accessLogCh, budget, seqno, call, hist>>

\* Time passes.
Tick ==
    /\ clock < MaxTime
    /\ clock' = clock + 1
    /\ UNCHANGED <<rl, pc, req, now, resp, accessLogCh, budget, seqno, call, hist, logVars>>

\* ------------------------------------------------------ request forwarder
\* Header values: no such header, a header with an empty value, the value the
\* client sent; the host of RemoteAddr; the values the Director sets.
Absent == "<absent>"
Empty == ""
ClientValue == "client value"
RemoteHost == "remote host"
BrowserUA == "Mozilla/5.0 (Windows NT 10.0; Win64; x64) AppleWebKit/537.36 (KHTML, like Gecko) Chrome/124.0.0.0 Safari/537.36"
DefaultLanguage == "zh-CN,zh;q=0.9,en;q=0.8"
DefaultEncoding == "gzip, deflate, br"

\* Director, lines 230-238: the headers it deletes.
StrippedHeaders ==
    {"X-Real-IP", "X-Forwarded-For", "X-Forwarded-Host", "X-Forwarded-Proto",
     "Forwarded", "Via", "Proxy-Connection"}
HeaderNames == StrippedHeaders \cup {"User-Agent", "Accept-Language", "Accept-Encoding"}

\* http.Header.Get: the value, "" when the header is absent.
Get(h, name) == IF h[name] = Absent THEN Empty ELSE h[name]

\* A Director that sets the two preference headers whatever the client sent.
DirectorOverwrite(h) ==
    [name \in HeaderNames |->
        IF name \in StrippedHeaders THEN Absent
        ELSE IF name = "User-Agent" THEN BrowserUA
        ELSE IF name = "Accept-Language" THEN DefaultLanguage
        ELSE DefaultEncoding]

\* Director, lines 219-257, on the headers of the outgoing clone.
Director(h) ==
    [name \in HeaderNames |->
        IF name \in StrippedHeaders THEN Absent
        ELSE IF name = "User-Agent" THEN BrowserUA
        ELSE IF name = "Accept-Language"
        THEN IF Get(h, name) = Empty THEN DefaultLanguage ELSE h[name]
        ELSE IF Get(h, name) = Empty THEN DefaultEncoding ELSE h[name]]

\* proxyRP.ServeHTTP (lines 206, 425), httputil.ReverseProxy with a Director
\* and no Rewrite: after the Director ran on the clone, the hop-by-hop headers
\* are removed, and when RemoteAddr splits into host and port the host is
\* appended to what X-Forwarded-For holds and set as X-Forwarded-For (a
\* Director has to store a nil value under the key to prevent that; Del does
\* not).
ServeHTTP(r) ==
    LET h == Director(r.header)
        prior == h["X-Forwarded-For"]
    IN  [name \in HeaderNames |->
            IF name = "Proxy-Connection" THEN Absent
            ELSE IF name = "X-Forwarded-For" /\ r.remoteHasPort
            THEN IF prior = Absent THEN RemoteHost ELSE "prior, remote host"
            ELSE h[name]]

NoOutbound == [name \in HeaderNames |-> "<not sent>"]

\* The requests a client can send: each proxy-revealing header absent or
\* present, the two preference headers absent, empty or set, and a RemoteAddr
\* with a port (every TCP connection) or without one.
InboundRequests ==
    [header : { h \in [HeaderNames -> {Absent, Empty, ClientValue}] :
                  /\ \A name \in StrippedHeaders \cup {"User-Agent"} : h[name] # Empty },
     remoteHasPort : BOOLEAN]

\* The transport sends the request ServeHTTP built.
Forward ==
    /\ outbound = NoOutbound
    /\ outbound' = ServeHTTP(inbound)
    /\ UNCHANGED inbound

\* ------------------------------------------------------------- client key
\* Strings are sequences of characters.  A header value is what
\* r.Header.Get returns: empty for an absent header, and, as net/http
\* delivers it, without leading or trailing blanks.
Space == " "
Comma == ","
Colon == ":"
Chars == {"a", "b", Space, Comma}

Values(n) == UNION { [1..k -> Chars] : k \in 0..n }
HeaderValues(n) ==
    { v \in Values(n) : v # <<>> => (v[1] # Space /\ v[Len(v)] # Space) }

\* strings.TrimSpace.
RECURSIVE TrimLeft(_)
TrimLeft(s) == IF s # <<>> /\ Head(s) = Space THEN TrimLeft(Tail(s)) ELSE s
RECURSIVE TrimRight(_)
TrimRight(s) ==
    IF s # <<>> /\ s[Len(s)] = Space
    THEN TrimRight(SubSeq(s, 1, Len(s) - 1)) ELSE s
TrimSpace(s) == TrimRight(TrimLeft(s))

\* strings.Split(s, sep): the parts between the separators, at least one.
RECURSIVE Split(_, _)
Split(s, sep) ==
    LET at == { i \in 1..Len(s) : s[i] = sep }
    IN  IF at = {} THEN <<s>>
        ELSE LET i == CHOOSE i \in at : \A j \in at : i <= j
             IN  <<SubSeq(s, 1, i - 1)>> \o Split(SubSeq(s, i + 1, Len(s)), sep)

\* net.SplitHostPort for addresses without brackets: the host before the
\* last colon; an error when there is no colon or the host holds another one.
SplitHostPort(addr) ==
    LET at == { i \in 1..Len(addr) : addr[i] = Colon }
    IN  IF at = {} THEN [host |-> <<>>, err |-> TRUE]
        ELSE LET i == CHOOSE i \in at : \A j \in at : j <= i
             IN  IF \E j \in at : j < i
                 THEN [host |-> <<>>, err |-> TRUE]
                 ELSE [host |-> SubSeq(addr, 1, i - 1), err |-> FALSE]

\* A clientIP that looks at RemoteAddr only.
clientIPRemote(r) ==
    LET hp == SplitHostPort(r.remote)
    IN  IF hp.err THEN r.remote ELSE hp.host

\* clientIP, lines 290-304.
clientIP(r) ==
    IF r.xff # <<>> THEN TrimSpace(Split(r.xff, Comma)[1])
    ELSE IF r.xreal # <<>> THEN TrimSpace(r.xreal)
    ELSE LET hp == SplitHostPort(r.remote)
         IN  IF hp.err THEN r.remote ELSE hp.host

NoKey == <<"<none>">>
NoKeys == [limiter |-> NoKey, log |-> NoKey]
NoPeer == [xff |-> NoKey, xreal |-> NoKey, remote |-> NoKey]
NoPrev == [peer |-> NoPeer, key |-> NoKey]

\* The requests of one connection: X-Forwarded-For and X-Real-IP as sent, and
\* the RemoteAddr of the connection, with a port (a TCP peer) or without.
RemoteAddrs == { <<"a", Colon, "1">>, <<"b", Colon, "1">>, <<"a">> }
KeyRequests ==
    [xff : HeaderValues(MaxHeaderLen), xreal : HeaderValues(1), remote : RemoteAddrs]

\* rateLimitMiddleware, lines 396-397: ip := clientIP(r) and Allow(ip) charges
\* the bucket of that key.
Charge ==
    /\ peer # NoPeer
    /\ keys.limiter = NoKey
    /\ keys' = [keys EXCEPT !.limiter = clientIP(peer)]
    /\ rl' = Allow(rl, clientIP(peer), clock).rl
    /\ UNCHANGED <<clock, pc, req, now, resp, accessLogCh, budget, seqno, call,
                   hist, logVars, peer, prev>>

\* loggingMiddleware, lines 311-316: ip := clientIP(r) goes into the line.
LogKey ==
    /\ keys.limiter # NoKey
    /\ keys.log = NoKey
    /\ keys' = [keys EXCEPT !.log = clientIP(peer)]
    /\ UNCHANGED <<clock, rl, pc, req, now, resp, accessLogCh, budget, seqno, call,
                   hist, logVars, peer, prev>>

\* The next request on the same connection: the same RemoteAddr, another
\* X-Forwarded-For.
NextRequest ==
    /\ keys.log # NoKey
    /\ budget > 0
    /\ budget' = budget - 1
    /\ prev' = [peer |-> peer, key |-> keys.limiter]
    /\ \E x \in HeaderValues(MaxHeaderLen) : peer' = [peer EXCEPT !.xff = x]
    /\ keys' = NoKeys
    /\ UNCHANGED <<clock, rl, pc, req, now, resp, accessLogCh, seqno, call, hist,
                   logVars>>

\* ------------------------------------------------------------ buffer pool
NoBuf == [len |-> -1, cap |-> -1]

\* byteBufferPool.Get, lines 276-281, by the copy of goroutine p: sync.Pool
\* hands out one of the slices it holds, as stored, or nothing (it is empty or
\* has dropped what it held), and then a new slice is made.
PoolGet(p) ==
    /\ budget > 0
    /\ held[p] = NoBuf
    /\ budget' = budget - 1
    /\ \/ \E i \in 1..Len(pool) :
             /\ held' = [held EXCEPT ![p] = pool[i]]
             /\ pool' = SubSeq(pool, 1, i - 1) \o SubSeq(pool, i + 1, Len(pool))
       \/ /\ held' = [held EXCEPT ![p] = [len |-> BufferSize, cap |-> BufferSize]]
          /\ pool' = pool
    /\ UNCHANGED <<clock, rl, pc, req, now, resp, accessLogCh, seqno, call, hist,
                   logVars>>

\* byteBufferPool.Put, lines 283-287, when the copy is over: b[:0] is stored.
PoolPut(p) ==
    /\ held[p] # NoBuf
    /\ pool' = Append(pool, [len |-> 0, cap |-> held[p].cap])
    /\ held' = [held EXCEPT ![p] = NoBuf]
    /\ UNCHANGED <<clock, rl, pc, req, now, resp, accessLogCh, budget, seqno, call,
                   hist, logVars>>

\* sync.Pool drops a slice it holds (a garbage collection).
PoolDrop ==
    /\ pool # <<>>
    /\ pool' = Tail(pool)
    /\ UNCHANGED <<held, clock, rl, pc, req, now, resp, accessLogCh, budget, seqno,
                   call, hist, logVars>>

\* ------------------------------------------------- Allow, called directly
\* What is recorded of the Allow calls: per IP the instant its bucket was
\* made (born) and, per instant, how many admitted calls sampled that instant
\* (adm); whether some call ran under rl.mu later than the instant it sampled
\* (late), and whether some call ran with an instant older than the last of
\* its bucket (behind).
NoAudit ==
    [born   |-> [ip \in IPs |-> -1],
     adm    |-> [ip \in IPs |-> [t \in 0..MaxTime |-> 0]],
     late   |-> FALSE,
     behind |-> FALSE]

Record(a, r, ip, t, ok) ==
    [born   |-> IF ip \in DOMAIN r.buckets THEN a.born
                ELSE [a.born EXCEPT ![ip] = t],
     adm    |-> IF ok THEN [a.adm EXCEPT ![ip][t] = @ + 1] ELSE a.adm,
     late   |-> a.late \/ t < clock,
     behind |-> a.behind \/ (ip \in DOMAIN r.buckets /\ t < r.buckets[ip].last)]

\* Allow, line 356: a caller samples time.Now() and goes for rl.mu.
AllowSample(p) ==
    /\ pc[p] = "idle"
    /\ budget > 0
    /\ budget' = budget - 1
    /\ \E ip \in IPs : req' = [req EXCEPT ![p] = [ip |-> ip]]
    /\ now' = [now EXCEPT ![p] = clock]
    /\ pc' = [pc EXCEPT ![p] = "allow"]
    /\ UNCHANGED <<clock, rl, resp, accessLogCh, seqno, call, hist, logVars, audit>>

\* Allow, lines 358-388: the caller holds rl.mu, runs the critical section
\* with the instant it sampled and returns.
AllowLocked(p) ==
    /\ pc[p] = "allow"
    /\ LET a == Allow(rl, req[p].ip, now[p])
       IN  /\ rl' = a.rl
           /\ audit' = Record(audit, rl, req[p].ip, now[p], a.ok)
    /\ pc' = [pc EXCEPT ![p] = "idle"]
    /\ req' = [req EXCEPT ![p] = NoReq]
    /\ now' = [now EXCEPT ![p] = 0]
    /\ UNCHANGED <<clock, budget, resp, accessLogCh, seqno, call, hist, logVars>>

\* ---------------------------------------------------------- specification
\* The sinks when the server starts to listen.  The access sink is as
\* setupLogging built it.  The error sink has handled the start-up lines of
\* init() and main(): its rotation either opened the file of day 0 (started)
\* or failed and left the sink as built.  files and stdout hold the lines
\* written from here on.
InitLog(started) ==
    /\ sink = [s \in Streams |->
                 IF s = "error" /\ started
                 THEN [file |-> 0, currentDate |-> 0] ELSE newDailyFileWriter]
    /\ mu = [s \in Streams |-> NoHolder]
    /\ handles = [s \in Streams |-> IF s = "error" /\ started THEN <<0>> ELSE <<>>]
    /\ files = [s \in Streams |-> [d \in Dates |-> <<>>]]
    /\ stdout = <<>>
    /\ wr = [g \in Writers |-> NoWrite]

InitServer(n) ==
    /\ clock = 0
    /\ pc = [g \in Writers |-> IF g = Consumer THEN "recv" ELSE "idle"]
    /\ req = [p \in Procs |-> NoReq]
    /\ now = [p \in Procs |-> 0]
    /\ resp = [p \in Procs |-> NoResp]
    /\ call = [p \in Procs |-> NoCall]
    /\ accessLogCh = <<>>
    /\ budget = n
    /\ seqno = [s \in Streams |-> 0]
    /\ hist = [ip \in IPs |-> NoHist]

NoInbound == [header |-> [name \in HeaderNames |-> Absent], remoteHasPort |-> TRUE]

InitForward(r) ==
    /\ inbound = r
    /\ outbound = NoOutbound

InitKeys(r) ==
    /\ peer = r
    /\ keys = NoKeys
    /\ prev = NoPrev

InitPool ==
    /\ pool = <<>>
    /\ held = [p \in Procs |-> NoBuf]
    /\ audit = NoAudit

\* The request path while the upstream answers.  The limiter is built once,
\* var defaultIPLimiter = newIPRateLimiter(300, 10 s); the model builds it
\* with a capacity in 1..MaxReq and a window in 1..MaxWindow.
Init ==
    /\ \E maxReq \in 1..MaxReq, window \in 1..MaxWindow :
          rl = newIPRateLimiter(maxReq, window)
    /\ InitServer(MaxRequests)
    /\ InitLog(TRUE)
    /\ InitForward(NoInbound)
    /\ InitKeys(NoPeer)
    /\ InitPool

RequestPath ==
    \/ Tick
    \/ \E p \in Procs : Arrive(p)
    \/ \E p \in Procs : RateLimit(p)
    \/ \E p \in Procs : ProxyOK(p)
    \/ \E p \in Procs : ProxyAbort(p)
    \/ \E p \in Procs : Enqueue(p)

Next == RequestPath /\ UNCHANGED <<fwdVars, keyVars, poolVars, audit>>

Spec == Init /\ [][Next]_vars

\* The request path behind a limiter built with any arguments:
\* newIPRateLimiter(maxReq, window) with maxReq in 0..MaxReq and window in
\* 0..MaxWindow.
InitAnyLimiter ==
    /\ \E maxReq \in 0..MaxReq, window \in 0..MaxWindow :
          rl = newIPRateLimiter(maxReq, window)
    /\ InitServer(MaxRequests)
    /\ InitLog(TRUE)
    /\ InitForward(NoInbound)
    /\ InitKeys(NoPeer)
    /\ InitPool

SpecAnyLimiter == InitAnyLimiter /\ [][Next]_vars

\* The logging path: the requests end in access-log lines, failing round trips
\* log on the error stream, the consumer drains accessLogCh.
InitLogging ==
    /\ rl = newIPRateLimiter(MaxReq, MaxWindow)
    /\ InitServer(MaxLogRequests)
    /\ \E started \in BOOLEAN : InitLog(started)
    /\ InitForward(NoInbound)
    /\ InitKeys(NoPeer)
    /\ InitPool

LoggingPath ==
    \/ RequestPath
    \/ \E p \in Procs : ProxyFail(p)
    \/ \E p \in Procs : ErrorReply(p)
    \/ Receive
    \/ Written
    \/ \E g \in Writers, s \in Streams : Write(g, s)

NextLogging == LoggingPath /\ UNCHANGED <<fwdVars, keyVars, poolVars, audit>>

SpecLog == InitLogging /\ [][NextLogging]_vars

\* The access log drained: the requests end in access-log lines and the
\* consumer goroutine of setupLogging, which the Go scheduler runs whenever it
\* can run, receives and writes them; it is the only user of the access
\* sink's lock.
ConsumerStep ==
    /\ \/ Receive
       \/ Written
       \/ Write(Consumer, "access")
    /\ UNCHANGED <<fwdVars, keyVars, poolVars, audit>>

NextDrain ==
    \/ RequestPath /\ UNCHANGED <<fwdVars, keyVars, poolVars, audit>>
    \/ ConsumerStep

SpecDrain == InitLogging /\ [][NextDrain]_vars /\ WF_vars(ConsumerStep)

\* The forwarder as a function of the request: any inbound request, forwarded
\* once.
InitDirector ==
    /\ rl = newIPRateLimiter(MaxReq, MaxWindow)
    /\ InitServer(0)
    /\ InitLog(TRUE)
    /\ \E r \in InboundRequests : InitForward(r)
    /\ InitKeys(NoPeer)
    /\ InitPool

NextDirector == Forward /\ UNCHANGED <<serverVars, keyVars, poolVars, audit>>

SpecDirector == InitDirector /\ [][NextDirector]_vars

\* The client key: any first request of a connection and any second one that
\* differs in X-Forwarded-For, each keyed by the limiter and by the log.
InitClientIP ==
    /\ rl = newIPRateLimiter(MaxReq, MaxWindow)
    /\ InitServer(1)
    /\ InitLog(TRUE)
    /\ InitForward(NoInbound)
    /\ \E r \in KeyRequests : InitKeys(r)
    /\ InitPool

KeyPath ==
    \/ Charge
    \/ LogKey
    \/ NextRequest

NextClientIP == KeyPath /\ UNCHANGED <<fwdVars, poolVars, audit>>

SpecClientIP == InitClientIP /\ [][NextClientIP]_vars

\* The buffer pool: the copies of MaxCopies response bodies, by two
\* goroutines, each between a Get and a Put.
InitCopies ==
    /\ rl = newIPRateLimiter(MaxReq, MaxWindow)
    /\ InitServer(MaxCopies)
    /\ InitLog(TRUE)
    /\ InitForward(NoInbound)
    /\ InitKeys(NoPeer)
    /\ InitPool

PoolPath ==
    \/ \E p \in Procs : PoolGet(p)
    \/ \E p \in Procs : PoolPut(p)
    \/ PoolDrop

NextPool == PoolPath /\ UNCHANGED <<fwdVars, keyVars, audit>>

SpecPool == InitCopies /\ [][NextPool]_vars

\* The limiter alone: MaxCalls calls of Allow by two concurrent callers, each
\* sampling the clock and then waiting for rl.mu as long as the scheduler
\* lets it, while time passes.
InitAllow ==
    /\ \E maxReq \in 1..MaxReq, window \in 1..MaxWindow :
          rl = newIPRateLimiter(maxReq, window)
    /\ InitServer(MaxCalls)
    /\ InitLog(TRUE)
    /\ InitForward(NoInbound)
    /\ InitKeys(NoPeer)
    /\ InitPool

AllowPath ==
    \/ Tick /\ UNCHANGED audit
    \/ \E p \in Procs : AllowSample(p)
    \/ \E p \in Procs : AllowLocked(p)

NextAllow == AllowPath /\ UNCHANGED <<fwdVars, keyVars, poolVars>>

SpecAllow == InitAllow /\ [][NextAllow]_vars

\* ------------------------------------------------------------------ claims
Handled(p) == pc[p] \in {"proxy", "errlog", "log"}

\* C1 (as stated): of the Allow calls made for an IP inside the window that
\* starts with its first call, the first `limit` are admitted and the
\* (limit+1)-th is rejected, wherever in the window the calls fall.  The
\* rejection is asked for only where every call ran at the instant it sampled,
\* so that the window of the calls is not in doubt.
C1_WindowQuota ==
    \A ip \in IPs :
        /\ (1 <= hist[ip].n /\ hist[ip].n <= rl.limit) => hist[ip].ok
        /\ (hist[ip].n = rl.limit + 1 /\ ~hist[ip].late) => ~hist[ip].ok

\* The half of C1 the code keeps: the first `limit` calls of the window are
\* admitted.
C1_FirstAdmitted ==
    \A ip \in IPs : (1 <= hist[ip].n /\ hist[ip].n <= rl.limit) => hist[ip].ok

\* C2 (as stated): every bucket of the map holds 0 <= tokens <= capacity.
C2_TokensInRange ==
    \A ip \in DOMAIN rl.buckets :
        /\ 0 <= rl.buckets[ip].tokens
        /\ rl.buckets[ip].tokens <= rl.limit * rl.window

\* C3 (as stated): a request for /healthz is answered 200 "ok <timestamp>",
\* whatever the state of its IP's bucket.
C3_HealthzAlwaysOK ==
    \A p \in Procs :
        (pc[p] = "log" /\ req[p].path = "/healthz")
            => /\ resp[p].status = StatusOK
               /\ resp[p].by = "healthz"

\* The bucket of an IP, or NoBucket while the map has none.
NoBucket == [tokens |-> -1, last |-> -1]
Bucket(ip) == IF ip \in DOMAIN rl.buckets THEN rl.buckets[ip] ELSE NoBucket

\* C4: a bucket (tokens, lastRefill) changes only in a step in which an
\* Allow call for that very IP runs; an Allow for another IP, admitted or
\* rejected, leaves it as it was.
C4_IndependentQuotas ==
    [][\A ip \in IPs :
          Bucket(ip)' # Bucket(ip)
              => \E p \in Procs :
                    pc[p] = "allow" /\ req[p].ip = ip /\ pc'[p] # "allow"]_vars

\* C4 witness: an IP's request has just been rejected while the other IP has
\* a bucket of its own.
C4_Witness ==
    \E p \in Procs :
        /\ pc[p] = "log" /\ ~call[p].allowed
        /\ \E ip \in DOMAIN rl.buckets : ip # req[p].ip

\* C5: an Allow call started a whole window or more after the latest Allow
\* call for its IP is admitted: the refill brings the bucket to exactly
\* capacity and one token is then taken.
C5_RefillAfterWindow ==
    [][\A p \in Procs :
          (pc[p] = "allow" /\ pc'[p] # "allow"
               /\ Waited(hist[req[p].ip], now[p], rl.window))
              => /\ call'[p].allowed
                 /\ Refill(rl, rl.buckets[req[p].ip], now[p]).tokens
                        = rl.limit * rl.window
                 /\ rl'.buckets[req[p].ip].tokens
                        = (rl.limit - 1) * rl.window]_vars

\* C5 witness: an IP made more calls than the capacity in its first window
\* (its bucket was drained), and its call a window later has been admitted.
C5_Witness ==
    \E p \in Procs :
        /\ Handled(p) /\ call[p].waited /\ call[p].allowed
        /\ hist[req[p].ip].n > rl.limit

\* C6: a request Allow rejected has the 429 response of the limiter and was
\* not passed on (it is never at the proxy); a request Allow admitted was
\* passed on and its response does not come from the limiter.
C6_RejectedNotForwarded ==
    \A p \in Procs :
        Handled(p) =>
            IF call[p].allowed
            THEN call[p].next /\ resp[p].by # "rateLimitMiddleware"
            ELSE /\ resp[p] = TooManyRequests
                 /\ resp[p].status = StatusTooManyRequests
                 /\ resp[p].ctype = "text/plain; charset=utf-8"
                 /\ resp[p].body = "Too Many Requests\n"
                 /\ ~call[p].next
                 /\ pc[p] = "log"

\* C6 witness: one request rejected by the limiter, while another, admitted,
\* carries the upstream's own 429.
C6_Witness ==
    \E p, q \in Procs :
        /\ pc[p] = "log" /\ ~call[p].allowed
        /\ pc[q] = "log" /\ call[q].allowed
        /\ resp[q].status = StatusTooManyRequests

\* C7 (as stated): the request sent to the upstream carries none of the seven
\* proxy-revealing headers, whatever the inbound request carried.
C7_NoProxyHeaders ==
    outbound # NoOutbound
        => \A name \in StrippedHeaders : outbound[name] = Absent

\* What the Director alone achieves: its own result carries none of them.
C7_DirectorStrips ==
    \A name \in StrippedHeaders : Director(inbound.header)[name] = Absent

\* The access-log line a handler at "log" produces.
AccessLine(p) ==
    [seq |-> seqno["access"] + 1, ip |-> req[p].ip, prod |-> DateOf(clock)]

\* C8: the enqueue of an access-log line never blocks (the step is enabled
\* whenever a handler is at it) and never fails the request (the handler
\* returns); the line is appended while the queue holds fewer than its
\* capacity and dropped when it is full; the queue never exceeds its capacity.
C8_EnqueueNeverBlocks ==
    /\ [](/\ Len(accessLogCh) <= AccessLogCap
          /\ \A p \in Procs : pc[p] = "log" => ENABLED Enqueue(p))
    /\ [][\A p \in Procs :
             (pc[p] = "log" /\ pc'[p] # "log")
                 => /\ pc'[p] = "idle"
                    /\ accessLogCh' =
                          IF Len(accessLogCh) < AccessLogCap
                          THEN Append(accessLogCh, AccessLine(p))
                          ELSE accessLogCh]_vars

\* C8 witness: the queue is full and the line of the latest request is not in
\* it: it was dropped and its handler has returned.
C8_Witness ==
    /\ Len(accessLogCh) = AccessLogCap
    /\ accessLogCh[AccessLogCap].seq < seqno["access"]
    /\ \A p \in Procs : pc[p] = "idle"

\* Is goroutine g ending a Write call in this step?
Ending(g) ==
    /\ wr[g].stream # "none" /\ wr[g].at # "done"
    /\ wr'[g].stream # "none" /\ wr'[g].at = "done"

\* C9 (as stated): every line in the file of day d was produced on day d and
\* carries a timestamp of day d, on both streams.
C9_OwnDayOnly ==
    \A s \in Streams, d \in Dates :
        \A i \in 1..Len(files[s][d]) :
            files[s][d][i].prod = d /\ files[s][d][i].stamp = d

\* C9 (amended): a Write whose rotation succeeds appends its line to the file
\* of the day that Write read from the clock and changes no other file and
\* no earlier line; a Write whose rotation fails puts its line on stdout; no
\* other step changes a file or stdout.
C9_WriteDayFile ==
    [][/\ \A g \in Writers :
             Ending(g) =>
                 IF wr[g].at = "write"
                 THEN /\ files' = [files EXCEPT ![wr[g].stream][wr[g].today] =
                                                   Append(@, wr[g].entry)]
                      /\ stdout' = stdout
                 ELSE /\ stdout' = Append(stdout, [stream |-> wr[g].stream,
                                                   entry |-> wr[g].entry])
                      /\ files' = files
       /\ (\A g \in Writers : ~Ending(g)) => (files' = files /\ stdout' = stdout)]_vars

\* C9 witness: the access stream has lines in the file of day 0 and in the
\* file of day 1, and the file of day 1 holds a line produced on day 0.
C9_Witness ==
    /\ files["access"][0] # <<>>
    /\ \E i \in 1..Len(files["access"][1]) : files["access"][1][i].prod = 0

Rotating(s) ==
    \E g \in Writers : wr[g].stream = s /\ wr[g].at \in {"close", "assign"}

C11_FallbackToStdout ==
    /\ [](\A g \in Writers :
             wr[g].stream # "none" =>
                 /\ wr[g].at = "write" =>
                        /\ sink[wr[g].stream].file # NoFile
                        /\ \E i \in 1..Len(handles[wr[g].stream]) :
                              handles[wr[g].stream][i] = sink[wr[g].stream].file
                 /\ wr[g].at = "done" => mu[wr[g].stream] # g)
    /\ [][\A g \in Writers :
             (Ending(g) /\ wr[g].at = "open") =>
                 /\ stdout' = Append(stdout, [stream |-> wr[g].stream,
                                              entry |-> wr[g].entry])
                 /\ files' = files /\ sink' = sink /\ handles' = handles
                 /\ mu[wr[g].stream] = g
                 /\ mu'[wr[g].stream] = NoHolder]_vars

\* C11 witness: the first rotation of a sink failed: the sink is as built
\* (no file), its line is on stdout, the lock is free and the Write returned.
C11_Witness ==
    \E g \in Writers :
        /\ wr[g].stream # "none" /\ wr[g].at = "done"
        /\ sink[wr[g].stream] = newDailyFileWriter
        /\ mu[wr[g].stream] = NoHolder
        /\ \E i \in 1..Len(stdout) :
              stdout[i] = [stream |-> wr[g].stream, entry |-> wr[g].entry]


\* The enqueue numbers of the access lines written so far, to a day file or
\* to stdout.
WrittenAccess ==
    UNION { { files["access"][d][i].seq : i \in 1..Len(files["access"][d]) } :
            d \in Dates }
      \cup { stdout[i].entry.seq :
             i \in { j \in 1..Len(stdout) : stdout[j].stream = "access" } }

\* C12: the access lines are written in the order of their enqueues: each
\* line the consumer writes was enqueued after every line written before it
\* (so none is written twice), and lines waiting in the queue are in enqueue
\* order behind everything written or being written.
C12_WrittenInEnqueueOrder ==
    /\ [](\A i \in 1..Len(accessLogCh) :
             /\ \A k \in WrittenAccess : k < accessLogCh[i].seq
             /\ \A j \in 1..(i - 1) : accessLogCh[j].seq < accessLogCh[i].seq
             /\ wr[Consumer].stream # "none"
                    => wr[Consumer].entry.seq < accessLogCh[i].seq)
    /\ [][Ending(Consumer) =>
             /\ \A k \in WrittenAccess : k < wr[Consumer].entry.seq
             /\ WrittenAccess' = WrittenAccess \cup {wr[Consumer].entry.seq}]_vars

\* C12 witness: two requests were handled, their two lines were enqueued and
\* the consumer has written both.
C12_Witness ==
    /\ Cardinality(WrittenAccess) = 2
    /\ pc[Consumer] = "recv"
    /\ seqno["access"] = 2
    /\ \A p \in Procs : pc[p] = "idle"


\* C13 (as stated): every request that reached the server makes exactly one
\* enqueue attempt: the attempts made plus the requests still being handled
\* are the requests received; and an attempt is made only with the response
\* of the inner handler complete.
C13_OneAttemptPerRequest ==
    /\ seqno["access"] + Cardinality({p \in Procs : pc[p] # "idle"})
           = MaxRequests - budget
    /\ \A p \in Procs : pc[p] = "log" => resp[p] # NoResp

\* The part of C13 the code keeps: no request makes more than one attempt,
\* and an attempt is made only after the inner handler returned.
C13_AttemptAfterHandler ==
    /\ [](/\ seqno["access"] + Cardinality({p \in Procs : pc[p] # "idle"})
                 <= MaxRequests - budget
          /\ \A p \in Procs : pc[p] = "log" => resp[p] # NoResp)
    /\ [][seqno["access"]' # seqno["access"]
             => /\ seqno["access"]' = seqno["access"] + 1
                /\ \E p \in Procs : pc[p] = "log" /\ pc'[p] = "idle"]_vars


\* The lines written on the error stream so far, to a day file or to stdout.
WrittenErrors ==
    UNION { { files["error"][d][i] : i \in 1..Len(files["error"][d]) } :
            d \in Dates }
      \cup { stdout[i].entry :
             i \in { j \in 1..Len(stdout) : stdout[j].stream = "error" } }

\* Is this step one of goroutine p handling a failed round trip (the
\* ErrorHandler being entered, its log.Printf, its reply)?
ErrorHandlerStep(p) ==
    \/ pc[p] = "proxy" /\ pc'[p] = "errlog"
    \/ pc[p] = "errlog" /\ (pc'[p] # pc[p] \/ wr'[p] # wr[p])

\* C14 (as stated): every failure while a request is forwarded ends in the
\* ErrorHandler: a request leaves the proxy either with the upstream's
\* response or into the ErrorHandler, which answers 502.
C14_EveryFailureAnswered ==
    [][\A p \in Procs :
          (pc[p] = "proxy" /\ pc'[p] # "proxy") => pc'[p] \in {"log", "errlog"}]_vars

\* C14 (amended): a failed round trip makes the ErrorHandler write one line
\* on the error stream (to a day file or to stdout) and then answer 502 with
\* the fixed body; its steps change neither the limiter, nor the access-log
\* queue, nor the access sink, nor another request's response.
C14_BadGatewayOnRoundTripError ==
    [][\A p \in Procs :
          /\ (pc[p] = "errlog" /\ pc'[p] # "errlog") =>
                 /\ pc'[p] = "log"
                 /\ resp'[p] = UpstreamError
                 /\ resp'[p].status = StatusBadGateway
                 /\ resp'[p].body = "Upstream error\n"
                 /\ wr[p].entry \in WrittenErrors
          /\ ErrorHandlerStep(p) =>
                 /\ rl' = rl /\ hist' = hist /\ accessLogCh' = accessLogCh
                 /\ sink'["access"] = sink["access"]
                 /\ files'["access"] = files["access"]
                 /\ \A q \in Procs \ {p} : resp'[q] = resp[q] /\ pc'[q] = pc[q]]_vars

\* C14 witness: a request whose round trip failed has its 502, its line is
\* on the error stream, and another request of the same IP is admitted and
\* served by the proxy.
C14_Witness ==
    \E p, q \in Procs :
        /\ pc[p] = "log" /\ resp[p] = UpstreamError
        /\ WrittenErrors # {}
        /\ pc[q] \in {"proxy", "log"} /\ call[q].allowed /\ req[q].ip = req[p].ip
        /\ resp[q] # UpstreamError


FirstElementEnds(s, n) ==
    /\ \A i \in 1..n : s[i] # Comma
    /\ n = Len(s) \/ s[n + 1] = Comma

\* The pieces of s: its contiguous parts, the empty one included.
Pieces(s) == { SubSeq(s, i, j) : i \in 1..(Len(s) + 1), j \in 0..Len(s) }

\* Is k the text e without the blanks around it?
IsTrimOf(e, k) ==
    \E i \in 1..(Len(e) + 1), j \in 0..Len(e) :
        /\ i <= j + 1
        /\ k = SubSeq(e, i, j)
        /\ \A m \in 1..(i - 1) : e[m] = Space
        /\ \A m \in (j + 1)..Len(e) : e[m] = Space
        /\ k # <<>> => (k[1] # Space /\ k[Len(k)] # Space)

\* Is k the host part of addr, or all of addr when it has no port?
IsHostOf(addr, k) ==
    LET at == { i \in 1..Len(addr) : addr[i] = Colon }
    IN  IF Cardinality(at) = 1
        THEN \E i \in at : k = SubSeq(addr, 1, i - 1)
        ELSE k = addr

\* Is k the first comma-separated element of s without the blanks around it?
IsTrimmedFirst(s, k) ==
    \E n \in 0..Len(s) : FirstElementEnds(s, n) /\ IsTrimOf(SubSeq(s, 1, n), k)

\* Is k the client IP of request r: the trimmed first element of
\* X-Forwarded-For, else the trimmed X-Real-IP, else the host of RemoteAddr?
IsClientKey(r, k) ==
    IF r.xff # <<>>
    THEN IsTrimmedFirst(r.xff, k)
    ELSE IF r.xreal # <<>>
    THEN IsTrimOf(r.xreal, k)
    ELSE IsHostOf(r.remote, k)

\* C16: the key the limiter charges is the trimmed first element of
\* X-Forwarded-For when the header is non-empty, else the trimmed X-Real-IP
\* when non-empty, else the host of RemoteAddr (all of it without a port); the
\* limiter holds a bucket under that key; the access log takes the same key;
\* and two requests from one RemoteAddr whose X-Forwarded-For first elements
\* differ (as trimmed) are charged to two different buckets.
C16_ClientKey ==
    /\ keys.limiter # NoKey =>
           /\ IsClientKey(peer, keys.limiter)
           /\ keys.limiter \in DOMAIN rl.buckets
    /\ keys.log # NoKey => keys.log = keys.limiter
    /\ (keys.limiter # NoKey /\ prev # NoPrev
            /\ peer.xff # <<>> /\ prev.peer.xff # <<>>
            /\ peer.remote = prev.peer.remote
            /\ ~(\E k \in Pieces(peer.xff) :
                    /\ IsTrimmedFirst(peer.xff, k)
                    /\ IsTrimmedFirst(prev.peer.xff, k)))
           => /\ keys.limiter # prev.key
              /\ {keys.limiter, prev.key} \subseteq DOMAIN rl.buckets

\* C16 witness: two requests from one RemoteAddr, the first with
\* X-Forwarded-For "a ," and the second with "b,a", have been charged to the
\* buckets "a" and "b", and the log has the key "b" for the second.
C16_Witness ==
    /\ prev.peer.xff = <<"a", Space, Comma>>
    /\ prev.key = <<"a">>
    /\ peer.xff = <<"b", Comma, "a">>
    /\ keys = [limiter |-> <<"b">>, log |-> <<"b">>]
    /\ DOMAIN rl.buckets = {<<"a">>, <<"b">>}


\* C17 (as stated): every slice Get hands out has length 32*1024, also one
\* that went through Put and is handed out again.
C17_FixedSizeBuffers ==
    \A p \in Procs : held[p] # NoBuf => held[p].len = BufferSize

\* What the code keeps of C17: every slice handed out has capacity 32*1024,
\* its length is 32*1024 when newly made and 0 when it comes back from the
\* pool, and every slice the pool holds has length 0.
C17_FixedCapacity ==
    /\ \A p \in Procs :
           held[p] # NoBuf =>
               /\ held[p].cap = BufferSize
               /\ held[p].len \in {0, BufferSize}
    /\ \A i \in 1..Len(pool) : pool[i] = [len |-> 0, cap |-> BufferSize]


\* The admitted Allow calls of an IP that sampled an instant in s..e.
RECURSIVE AdmittedIn(_, _, _)
AdmittedIn(ip, s, e) ==
    IF s > e THEN 0 ELSE audit.adm[ip][s] + AdmittedIn(ip, s + 1, e)

\* C18 (as stated): of the Allow calls of one IP that observe instants of an
\* interval of length T, at most capacity + rate * T are admitted (both sides
\* times the window); for T = 0: at most `capacity` of the calls that observe
\* one and the same instant.
C18_BurstBound ==
    \A ip \in IPs, s \in 0..MaxTime, e \in 0..MaxTime :
        s <= e =>
            AdmittedIn(ip, s, e) * rl.window
                <= rl.limit * rl.window + rl.limit * (e - s)

\* What the code keeps of C18: the bound holds as long as every call ran
\* under the lock at the instant it sampled.
C18_BurstBoundInOrder ==
    ~audit.late => C18_BurstBound


\* The admitted Allow calls of an IP so far.
Admitted(ip) == AdmittedIn(ip, 0, MaxTime)

\* C19: when a caller runs the critical section for an IP that has a bucket,
\* with whatever instant it sampled: the bucket's last never moves backwards
\* (it becomes the later of last and the sampled instant), the refill never
\* takes tokens away, and an instant not after last refills nothing; and no
\* interval is credited twice: the tokens taken plus the tokens left never
\* exceed the initial capacity plus the rate times the span from the bucket's
\* first instant to its last.
C19_StaleTimestamps ==
    /\ [](\A ip \in DOMAIN rl.buckets :
             Admitted(ip) * rl.window + rl.buckets[ip].tokens
                 <= rl.limit * rl.window
                      + rl.limit * (rl.buckets[ip].last - audit.born[ip]))
    /\ [][\A p \in Procs :
             (pc[p] = "allow" /\ pc'[p] = "idle" /\ req[p].ip \in DOMAIN rl.buckets)
                 => LET b  == rl.buckets[req[p].ip]
                        f  == Refill(rl, b, now[p])
                        b2 == rl'.buckets[req[p].ip]
                    IN  /\ b2.last >= b.last
                        /\ b2.last = IF now[p] > b.last THEN now[p] ELSE b.last
                        /\ f.tokens >= b.tokens
                        /\ now[p] <= b.last => f = b
                        /\ b2.tokens \in {f.tokens, f.tokens - OneToken(rl)}]_vars

\* C19 witness: a call has run the critical section with an instant older
\* than the last of its bucket, and the bucket's last is still the later one.
C19_Witness ==
    /\ audit.behind
    /\ \E ip \in DOMAIN rl.buckets : rl.buckets[ip].last > audit.born[ip]
    /\ \A p \in Procs : pc[p] = "idle"


\* How many times the access line with enqueue number k has been written.
TimesWritten(k) ==
    Cardinality({ <<d, i>> \in Dates \X (1..MaxLogRequests) :
                    i <= Len(files["access"][d]) /\ files["access"][d][i].seq = k })
      + Cardinality({ i \in 1..Len(stdout) :
                        stdout[i].stream = "access" /\ stdout[i].entry.seq = k })

\* Is the access line with enqueue number k in the queue?
Queued(k) == \E i \in 1..Len(accessLogCh) : accessLogCh[i].seq = k

\* C20: with the consumer scheduled fairly, every access line that was
\* enqueued is eventually out of the queue and written, to a day file of the
\* access sink or to stdout; no line is ever written twice; and a non-empty
\* queue becomes empty.
C20_QueueDrained ==
    /\ \A k \in 1..MaxLogRequests :
           /\ Queued(k) ~> (~Queued(k) /\ TimesWritten(k) = 1)
           /\ [](TimesWritten(k) <= 1)
    /\ (accessLogCh # <<>>) ~> (accessLogCh = <<>>)

\* C20 witness: two lines were enqueued; the queue is empty again, one line
\* is in a day file and the other, its rotation having failed, on stdout.
C20_Witness ==
    /\ accessLogCh = <<>>
    /\ pc[Consumer] = "recv"
    /\ seqno["access"] = 2
    /\ \A k \in 1..2 : TimesWritten(k) = 1
    /\ \E i \in 1..Len(stdout) : stdout[i].stream = "access"
    /\ \E d \in Dates : files["access"][d] # <<>>

====
